---- MODULE Spec2Model ----
(***************************************************************************)
(* limittar: a size limited GNU tar archive.  A LimitTar session predicts  *)
(* the size every file will take in the archive, admits the files that fit *)
(* under size_limit onto a queue, and a worker thread writes the queued    *)
(* files into the tar archive.                                             *)
(*                                                                         *)
(* Model of src/limittar/__init__.py: the two size functions, the LimitTar *)
(* thread (run), add_path, the add_paths generator, stop and close.        *)
(***************************************************************************)
EXTENDS Integers, Sequences, FiniteSets, TLC

(***************************************************************************)
(* Bounds of the model.                                                    *)
(***************************************************************************)
\* non-blank paths handed to the session in one behaviour
MaxPaths == 2
\* items (blank ones included) one add_paths call reads from its iterable
\* after the leading blank items
MaxItems == 3
\* calls of stop() in one behaviour
MaxStops == 1
\* largest file length the size functions are evaluated on
MaxFileLen == 1100
\* largest sum of file sizes determine_tar_archive_size is evaluated on,
\* next to the sums around a full default block
MaxTotal == 2100

(***************************************************************************)
(* Program constants.                                                      *)
(***************************************************************************)
\* the tar record size, the literal 512 of the size functions
RECORD == 512
\* longest path that fits the name field of a tar header
NAME_FIELD == 100
\* bufsize=20*512, the default block size of the archive
RECORDS_PER_BLOCK == 20
DEFAULT_BUFSIZE == RECORDS_PER_BLOCK * RECORD
\* add_paths checks for an underrun only when i > 10
UNDERRUN_AFTER == 10
\* size_limit=None: argparse leaves args.size None without -s
None == -1

(***************************************************************************)
(* Arithmetic of the size functions.                                       *)
(***************************************************************************)
\* math.ceil(a/b) for a >= 0, b > 0
math_ceil_div(a, b) == (a + b - 1) \div b

\* int(math.ceil(n)/b) for an int n >= 0, b > 0: math.ceil of an int is the
\* int itself, / is the true division and int() drops the fraction
int_ceil_then_div(n, b) == n \div b

\* result of os.path.getsize / os.path.isfile on a path
StatKinds == {"file", "dir", "missing"}

\* the extension added for a path of 100 bytes already
long_name_size_from_100(path_size) ==
    IF path_size >= NAME_FIELD
    THEN RECORD + RECORD * math_ceil_div(path_size, RECORD)
    ELSE 0

\* size += 512 + 512 * int(math.ceil(path_size/512)) when path_size > 100
long_name_size(path_size) ==
    IF path_size > NAME_FIELD
    THEN RECORD + RECORD * math_ceil_div(path_size, RECORD)
    ELSE 0

\* size += 512 * int(math.ceil(file_size)/512) when os.path.isfile(path)
payload_size(kind, file_size) ==
    IF kind = "file"
    THEN RECORD * int_ceil_then_div(file_size, RECORD)
    ELSE 0

\* determine_tar_file_size(path): path_size is len(path) of the encoded
\* path, kind and file_size what the file system reports for it.
\* os.path.getsize raises OSError for a path that does not exist.
determine_tar_file_size(path_size, kind, file_size) ==
    IF kind = "missing"
    THEN [raised |-> "OSError", value |-> 0]
    ELSE [raised |-> "none",
          value  |-> RECORD + long_name_size(path_size)
                            + payload_size(kind, file_size)]

\* the archive size with the block count rounded down
determine_tar_archive_size_floor(tar_data_size, bsize) ==
    bsize * ((tar_data_size + RECORD * 2) \div bsize)

\* determine_tar_archive_size(tar_data_size, bufsize)
determine_tar_archive_size(tar_data_size, bsize) ==
    bsize * math_ceil_div(tar_data_size + RECORD * 2, bsize)

(***************************************************************************)
(* The bytes tarfile writes (GNU format): per member a header record, for  *)
(* a long name a @LongLink header and the name in records, the payload in  *)
(* records; at close two zero records and padding to the block size.       *)
(***************************************************************************)
tar_member_size(path_size, kind, file_size) ==
    RECORD
    + (IF path_size > NAME_FIELD
       THEN RECORD + RECORD * math_ceil_div(path_size, RECORD) ELSE 0)
    + (IF kind = "file" THEN RECORD * math_ceil_div(file_size, RECORD) ELSE 0)

tar_container_size(members_size, bsize) ==
    bsize * math_ceil_div(members_size + 2 * RECORD, bsize)

(***************************************************************************)
(* The file system the session runs on.  nchars is len(path) of the str,   *)
(* nbytes the length of path.encode(encoding).                             *)
(***************************************************************************)
Blank == ""
Paths == {"a", "d", "m"}

FS ==
    [p \in Paths |->
        CASE p = "a" -> [nchars |-> 10, nbytes |-> 10,  kind |-> "file",
                         size |-> 100]
          [] p = "d" -> [nchars |-> 60, nbytes |-> 120, kind |-> "dir",
                         size |-> 4096]
          [] p = "m" -> [nchars |-> 10, nbytes |-> 10,  kind |-> "missing",
                         size |-> 0]]

\* len(path.encode(self._encoding))
encode_len(p) == FS[p].nbytes

\* determine_tar_file_size(path.encode(self._encoding)) on this file system
tar_file_size_of(p) ==
    determine_tar_file_size(encode_len(p), FS[p].kind, FS[p].size)

\* what self._tar.add(path, recursive=False) appends to the archive
tar_add_size(p) == tar_member_size(encode_len(p), FS[p].kind, FS[p].size)

RECURSIVE SumSeq(_, _)
SumSeq(f(_), s) == IF s = <<>> THEN 0 ELSE f(Head(s)) + SumSeq(f, Tail(s))

predicted_of(p) == tar_file_size_of(p).value

(***************************************************************************)
(* State.                                                                  *)
(***************************************************************************)
VARIABLES
    size_limit,   \* self._size_limit
    bufsize,      \* self._bufsize
    data_size,    \* self._data_size
    path_queue,   \* self._path_queue, oldest entry first
    started,      \* start() has been called on the thread
    wpc,          \* where the worker is in run()
    wpath,        \* run(): the local path
    tar_closed,   \* self._tar.close() has been called
    written,      \* the members self._tar.add has written, in order
    pc,           \* where each calling thread is
    ap,           \* add_path: the locals of each calling thread
    gen,          \* add_paths: the locals of the generator
    log,          \* add_paths: what happened to each non-blank item
    admitted,     \* the paths put on the queue by add_path, in order
    npaths,       \* number of non-blank paths handed to the session
    stops,        \* number of stop() calls
    stop_mark,    \* Len(admitted) at the first stop()
    fn_in,        \* arguments of the size function under evaluation
    fn_out        \* its result

vars == <<size_limit, bufsize, data_size, path_queue, started, wpc, wpath,
          tar_closed, written, pc, ap, gen, log, admitted, npaths, stops,
          stop_mark, fn_in, fn_out>>

config_vars  == <<size_limit, bufsize>>
worker_vars  == <<started, wpc, wpath, written>>
gen_vars     == <<gen, log>>
fn_vars      == <<fn_in, fn_out>>
stop_vars    == <<stops, stop_mark>>

\* the calling threads; "main" drives the session
Threads == {"main", "aux"}

\* the None that stop() puts on the queue
NoneVal == "<None>"

\* the size_limit and bufsize arguments of the sessions: no limit, 0 and
\* 2048 with blocks of two records, and 2048 with the default block size,
\* where the empty archive is already larger than the limit
SizeLimits == {None, 0, 4 * RECORD}
Configs == (SizeLimits \X {2 * RECORD}) \cup {<<4 * RECORD, DEFAULT_BUFSIZE>>}

\* truth value of a size limit in `if self._size_limit and ...`
truthy(limit) == limit # None /\ limit # 0

\* the size property
size == determine_tar_archive_size(data_size, bufsize)

ap_idle == [path |-> Blank, tfs |-> 0, tmp |-> 0, ret |-> "direct",
            result |-> "none"]
\* (skipped_halted records that the running call has skipped a blank item
\* with halt set)
gen_idle == [halt |-> FALSE, i |-> 0, exception |-> "unbound",
             hs |-> FALSE, hu |-> FALSE, ho |-> FALSE, lead |-> 0,
             skipped_halted |-> FALSE]

\* the iterables given to add_paths begin with no blank item or with ten,
\* which brings the next items to the indices 10 and 11, the two sides of
\* the test i > 10
Leads == {0, UNDERRUN_AFTER}
fn_idle_in == [path_size |-> 0, kind |-> "file", file_size |-> 0]
fn_idle_out == [raised |-> "unset", value |-> 0]

\* LimitTar.__init__
Init ==
    /\ \E c \in Configs : size_limit = c[1] /\ bufsize = c[2]
    /\ data_size = 0
    /\ path_queue = <<>>
    /\ started = FALSE
    /\ wpc = "new"
    /\ wpath = Blank
    /\ tar_closed = FALSE
    /\ written = <<>>
    /\ pc = [t \in Threads |-> "idle"]
    /\ ap = [t \in Threads |-> ap_idle]
    /\ gen = gen_idle
    /\ log = <<>>
    /\ admitted = <<>>
    /\ npaths = 0
    /\ stops = 0
    /\ stop_mark = 0
    /\ fn_in = fn_idle_in
    /\ fn_out = fn_idle_out

(***************************************************************************)
(* The worker thread: start() and run().                                   *)
(***************************************************************************)
\* threading.Thread.start(), called once by the main thread
start ==
    /\ pc["main"] = "idle"
    /\ ~started
    /\ started' = TRUE
    /\ wpc' = "get"
    /\ UNCHANGED <<config_vars, data_size, path_queue, wpath, tar_closed,
                   written, pc, ap, gen_vars, admitted, npaths, stop_vars,
                   fn_vars>>

\* run() taking the newest item of the queue instead of the oldest
run_get_newest ==
    /\ wpc = "get"
    /\ path_queue # <<>>
    /\ path_queue' = SubSeq(path_queue, 1, Len(path_queue) - 1)
    /\ IF path_queue[Len(path_queue)] \in {NoneVal, Blank}
       THEN wpc' = "done" /\ wpath' = Blank
       ELSE wpc' = "add" /\ wpath' = path_queue[Len(path_queue)]
    /\ UNCHANGED <<config_vars, data_size, started, tar_closed, written, pc,
                   ap, gen_vars, admitted, npaths, stop_vars, fn_vars>>

\* run(): path = self._path_queue.get(); if not path: break
run_get ==
    /\ wpc = "get"
    /\ path_queue # <<>>
    /\ path_queue' = Tail(path_queue)
    /\ IF Head(path_queue) \in {NoneVal, Blank}
       THEN wpc' = "done" /\ wpath' = Blank
       ELSE wpc' = "add" /\ wpath' = Head(path_queue)
    /\ UNCHANGED <<config_vars, data_size, started, tar_closed, written, pc,
                   ap, gen_vars, admitted, npaths, stop_vars, fn_vars>>

\* run(): self._tar.add(path, recursive=False); on a closed archive
\* tarfile raises OSError and the thread ends
run_add ==
    /\ wpc = "add"
    /\ IF tar_closed
       THEN wpc' = "done" /\ written' = written
       ELSE wpc' = "get" /\ written' = Append(written, wpath)
    /\ wpath' = Blank
    /\ UNCHANGED <<config_vars, data_size, path_queue, started, tar_closed,
                   pc, ap, gen_vars, admitted, npaths, stop_vars, fn_vars>>

(***************************************************************************)
(* add_path.                                                               *)
(***************************************************************************)
\* control leaves add_path of thread t with the given result: back to the
\* caller of a direct call, or into the try statement of add_paths
ap_leave(t, result) ==
    /\ pc' = [pc EXCEPT ![t] = IF ap[t].ret = "gen" THEN "gen_handle"
                               ELSE "idle"]
    /\ ap' = [ap EXCEPT ![t] = [ap_idle EXCEPT !.path = ap[t].path,
                                               !.ret = ap[t].ret,
                                               !.result = result]]

\* a thread calls add_path(path) itself
add_path_call(t, path) ==
    /\ pc[t] = "idle"
    /\ ~tar_closed
    /\ npaths < MaxPaths
    /\ npaths' = npaths + 1
    /\ pc' = [pc EXCEPT ![t] = "ap_check"]
    /\ ap' = [ap EXCEPT ![t] = [ap_idle EXCEPT !.path = path]]
    /\ UNCHANGED <<config_vars, data_size, path_queue, worker_vars,
                   tar_closed, gen_vars, admitted, stop_vars, fn_vars>>

\* add_path without the comparison with size_limit
add_path_check_unlimited(t) ==
    /\ pc[t] = "ap_check"
    /\ LET tar_file_size == tar_file_size_of(ap[t].path)
       IN  IF tar_file_size.raised = "OSError"
           THEN ap_leave(t, "OSError")
           ELSE /\ pc' = [pc EXCEPT ![t] = "ap_put"]
                /\ ap' = [ap EXCEPT ![t].tfs = tar_file_size.value]
    /\ UNCHANGED <<config_vars, data_size, path_queue, worker_vars,
                   tar_closed, gen_vars, admitted, npaths, stop_vars,
                   fn_vars>>

\* add_path that adds tar_file_size to self._data_size before it compares
add_path_check_commit_first(t) ==
    /\ pc[t] = "ap_check"
    /\ LET tar_file_size == tar_file_size_of(ap[t].path)
           predicted_size == data_size + tar_file_size.value
           archive_size == determine_tar_archive_size(predicted_size, bufsize)
       IN  IF tar_file_size.raised = "OSError"
           THEN ap_leave(t, "OSError") /\ data_size' = data_size
           ELSE IF truthy(size_limit) /\ archive_size > size_limit
           THEN ap_leave(t, "SizeLimitReached")
                /\ data_size' = predicted_size
           ELSE /\ pc' = [pc EXCEPT ![t] = "ap_put"]
                /\ ap' = [ap EXCEPT ![t].tfs = tar_file_size.value]
                /\ data_size' = data_size
    /\ UNCHANGED <<config_vars, path_queue, worker_vars,
                   tar_closed, gen_vars, admitted, npaths, stop_vars,
                   fn_vars>>

\* add_path taking the size of a path that cannot be examined as 0
add_path_check_missing_as_zero(t) ==
    /\ pc[t] = "ap_check"
    /\ LET tar_file_size == tar_file_size_of(ap[t].path)
           predicted_size == data_size + tar_file_size.value
           archive_size == determine_tar_archive_size(predicted_size, bufsize)
       IN  IF truthy(size_limit) /\ archive_size > size_limit
           THEN ap_leave(t, "SizeLimitReached")
           ELSE /\ pc' = [pc EXCEPT ![t] = "ap_put"]
                /\ ap' = [ap EXCEPT ![t].tfs = tar_file_size.value]
    /\ UNCHANGED <<config_vars, data_size, path_queue, worker_vars,
                   tar_closed, gen_vars, admitted, npaths, stop_vars,
                   fn_vars>>

\* add_path: tar_file_size = determine_tar_file_size(...) up to the raise
\* of SizeLimitReached
add_path_check(t) ==
    /\ pc[t] = "ap_check"
    /\ LET tar_file_size == tar_file_size_of(ap[t].path)
           predicted_size == data_size + tar_file_size.value
           archive_size == determine_tar_archive_size(predicted_size, bufsize)
       IN  IF tar_file_size.raised = "OSError"
           THEN ap_leave(t, "OSError")
           ELSE IF truthy(size_limit) /\ archive_size > size_limit
           THEN ap_leave(t, "SizeLimitReached")
           ELSE /\ pc' = [pc EXCEPT ![t] = "ap_put"]
                /\ ap' = [ap EXCEPT ![t].tfs = tar_file_size.value]
    /\ UNCHANGED <<config_vars, data_size, path_queue, worker_vars,
                   tar_closed, gen_vars, admitted, npaths, stop_vars,
                   fn_vars>>

\* add_path: self._path_queue.put(path)
add_path_put(t) ==
    /\ pc[t] = "ap_put"
    /\ path_queue' = Append(path_queue, ap[t].path)
    /\ admitted' = Append(admitted, ap[t].path)
    /\ pc' = [pc EXCEPT ![t] = "ap_load"]
    /\ UNCHANGED <<config_vars, data_size, worker_vars, tar_closed, ap,
                   gen_vars, npaths, stop_vars, fn_vars>>

\* add_path: self._data_size += tar_file_size, the read of self._data_size
add_path_load(t) ==
    /\ pc[t] = "ap_load"
    /\ ap' = [ap EXCEPT ![t].tmp = data_size]
    /\ pc' = [pc EXCEPT ![t] = "ap_store"]
    /\ UNCHANGED <<config_vars, data_size, path_queue, worker_vars,
                   tar_closed, gen_vars, admitted, npaths, stop_vars,
                   fn_vars>>

\* add_path with self._data_size = tar_file_size in place of +=
add_path_store_overwrite(t) ==
    /\ pc[t] = "ap_store"
    /\ data_size' = ap[t].tfs
    /\ ap_leave(t, "ok")
    /\ UNCHANGED <<config_vars, path_queue, worker_vars, tar_closed,
                   gen_vars, admitted, npaths, stop_vars, fn_vars>>

\* add_path: self._data_size += tar_file_size, the write, and the return
add_path_store(t) ==
    /\ pc[t] = "ap_store"
    /\ data_size' = ap[t].tmp + ap[t].tfs
    /\ ap_leave(t, "ok")
    /\ UNCHANGED <<config_vars, path_queue, worker_vars, tar_closed,
                   gen_vars, admitted, npaths, stop_vars, fn_vars>>

(***************************************************************************)
(* add_paths, a generator run by the main thread.  The iterable is read    *)
(* lazily: after gen.lead blank items every item is chosen when the loop   *)
(* asks for it.  gen.i counts the items read, so the item being read has   *)
(* the index gen.i.                                                        *)
(***************************************************************************)
\* the record add_paths keeps about a non-blank item (not program state)
log_entry(path, halted, fired) ==
    [path |-> path, halted_before |-> halted, underrun |-> fired, result |-> IF halted THEN "none" ELSE "pending",
     yielded |-> halted,
     reason |-> IF halted THEN gen.exception ELSE "unbound"]

\* the iterable has an item left for the loop, blank or not; it ends with
\* the last path the behaviour hands to the session
more_items == gen.i < gen.lead + MaxItems /\ npaths < MaxPaths

\* the next item of the iterable may be a path
path_next == gen.i >= gen.lead /\ more_items

\* add_paths(paths, hs, hu, ho) is called and its generator iterated
add_paths_call(hs, hu, ho, lead) ==
    /\ pc["main"] = "idle"
    /\ ~tar_closed
    /\ npaths < MaxPaths
    /\ pc' = [pc EXCEPT !["main"] = "gen_iter"]
    /\ gen' = [gen_idle EXCEPT !.hs = hs, !.hu = hu, !.ho = ho,
                               !.lead = lead]
    /\ log' = <<>>
    /\ UNCHANGED <<config_vars, data_size, path_queue, worker_vars,
                   tar_closed, ap, admitted, npaths, stop_vars, fn_vars>>

\* for i, path in enumerate(paths): the iterable is exhausted
add_paths_return ==
    /\ pc["main"] = "gen_iter"
    /\ gen.i >= gen.lead \/ ~more_items
    /\ pc' = [pc EXCEPT !["main"] = "idle"]
    /\ gen' = gen_idle
    /\ log' = <<>>
    /\ ap' = [ap EXCEPT !["main"] = ap_idle]
    /\ UNCHANGED <<config_vars, data_size, path_queue, worker_vars,
                   tar_closed, admitted, npaths, stop_vars, fn_vars>>

\* a blank item yielded like a path once halt is set
add_paths_blank_yielded ==
    /\ pc["main"] = "gen_iter"
    /\ more_items
    /\ gen' = [gen EXCEPT !.i = gen.i + 1,
                          !.skipped_halted = gen.skipped_halted \/ gen.halt]
    /\ log' = IF gen.halt
              THEN Append(log, [log_entry(Blank, TRUE, FALSE)
                                  EXCEPT !.yielded = TRUE,
                                         !.reason = gen.exception])
              ELSE log
    /\ UNCHANGED <<config_vars, data_size, path_queue, worker_vars,
                   tar_closed, pc, ap, admitted, npaths, stop_vars,
                   fn_vars>>

\* if not path: continue
add_paths_blank ==
    /\ pc["main"] = "gen_iter"
    /\ more_items
    /\ gen' = [gen EXCEPT !.i = gen.i + 1,
                          !.skipped_halted = gen.skipped_halted \/ gen.halt]
    /\ UNCHANGED <<config_vars, data_size, path_queue, worker_vars,
                   tar_closed, pc, ap, log, admitted, npaths, stop_vars,
                   fn_vars>>

\* the underrun test applied from index 10 on
underrun_from_10(i) ==
    i >= UNDERRUN_AFTER /\ gen.hu /\ path_queue = <<>>

\* the underrun test of add_paths for the item of index i
underrun(i) == i > UNDERRUN_AFTER /\ gen.hu /\ path_queue = <<>>

\* if not halt: the underrun test, then the call self.add_path(path)
add_paths_attempt(path) ==
    /\ pc["main"] = "gen_iter"
    /\ path_next
    /\ ~gen.halt
    /\ npaths' = npaths + 1
    /\ gen' = [gen EXCEPT !.i = gen.i + 1,
                          !.halt = underrun(gen.i),
                          !.exception = IF underrun(gen.i) THEN "Underrun"
                                        ELSE gen.exception]
    /\ log' = Append(log, log_entry(path, FALSE, underrun(gen.i)))
    /\ pc' = [pc EXCEPT !["main"] = "ap_check"]
    /\ ap' = [ap EXCEPT !["main"] = [ap_idle EXCEPT !.path = path,
                                                    !.ret = "gen"]]
    /\ UNCHANGED <<config_vars, data_size, path_queue, worker_vars,
                   tar_closed, admitted, stop_vars, fn_vars>>

\* halt is set: yield path, exception
add_paths_halted(path) ==
    /\ pc["main"] = "gen_iter"
    /\ path_next
    /\ gen.halt
    /\ npaths' = npaths + 1
    /\ gen' = [gen EXCEPT !.i = gen.i + 1]
    /\ log' = Append(log, log_entry(path, TRUE, FALSE))
    /\ UNCHANGED <<config_vars, data_size, path_queue, worker_vars,
                   tar_closed, pc, ap, admitted, stop_vars, fn_vars>>

\* add_paths that halts on every exception, whatever the halt flags
add_paths_handle_always_halt ==
    /\ pc["main"] = "gen_handle"
    /\ pc' = [pc EXCEPT !["main"] = "gen_iter"]
    /\ LET result == ap["main"].result
           n == Len(log)
       IN  IF result = "ok"
           THEN /\ gen' = gen
                /\ log' = [log EXCEPT ![n].result = "ok"]
           ELSE /\ gen' = [gen EXCEPT !.exception = result, !.halt = TRUE]
                /\ log' = [log EXCEPT ![n].result = result,
                                      ![n].yielded = TRUE,
                                      ![n].reason = result]
    /\ UNCHANGED <<config_vars, data_size, path_queue, worker_vars,
                   tar_closed, ap, admitted, npaths, stop_vars, fn_vars>>

\* the except and else clauses of the try statement around self.add_path,
\* and the yield that follows the except clauses
add_paths_handle ==
    /\ pc["main"] = "gen_handle"
    /\ pc' = [pc EXCEPT !["main"] = "gen_iter"]
    /\ LET result == ap["main"].result
           n == Len(log)
       IN  CASE result = "ok" ->
                  /\ gen' = gen
                  /\ log' = [log EXCEPT ![n].result = "ok"]
             [] result = "SizeLimitReached" ->
                  /\ gen' = [gen EXCEPT !.exception = result,
                                        !.halt = gen.halt \/ gen.hs]
                  /\ log' = [log EXCEPT ![n].result = result,
                                        ![n].yielded = TRUE,
                                        ![n].reason = result]
             [] result = "OSError" ->
                  /\ gen' = [gen EXCEPT !.exception = result,
                                        !.halt = gen.halt \/ gen.ho]
                  /\ log' = [log EXCEPT ![n].result = result,
                                        ![n].yielded = TRUE,
                                        ![n].reason = result]
    /\ UNCHANGED <<config_vars, data_size, path_queue, worker_vars,
                   tar_closed, ap, admitted, npaths, stop_vars, fn_vars>>

(***************************************************************************)
(* stop and close.                                                         *)
(***************************************************************************)
\* stop(): self._path_queue.put(None)
stop ==
    /\ pc["main"] = "idle"
    /\ ~tar_closed
    /\ stops < MaxStops
    /\ path_queue' = Append(path_queue, NoneVal)
    /\ stops' = stops + 1
    /\ stop_mark' = IF stops = 0 THEN Len(admitted) ELSE stop_mark
    /\ UNCHANGED <<config_vars, data_size, worker_vars, tar_closed, pc, ap,
                   gen_vars, admitted, npaths, fn_vars>>

\* close() is called on a started thread: self.join() begins to wait
close_call ==
    /\ pc["main"] = "idle"
    /\ started
    /\ ~tar_closed
    /\ pc' = [pc EXCEPT !["main"] = "join"]
    /\ UNCHANGED <<config_vars, data_size, path_queue, worker_vars,
                   tar_closed, ap, gen_vars, admitted, npaths, stop_vars,
                   fn_vars>>

\* close() without the self.join()
close_finish_no_join ==
    /\ pc["main"] = "join"
    /\ tar_closed' = TRUE
    /\ pc' = [pc EXCEPT !["main"] = "idle"]
    /\ UNCHANGED <<config_vars, data_size, path_queue, worker_vars, ap,
                   gen_vars, admitted, npaths, stop_vars, fn_vars>>

\* close(): self.join() returns once run() has ended; self._tar.close()
close_finish ==
    /\ pc["main"] = "join"
    /\ wpc = "done"
    /\ tar_closed' = TRUE
    /\ pc' = [pc EXCEPT !["main"] = "idle"]
    /\ UNCHANGED <<config_vars, data_size, path_queue, worker_vars, ap,
                   gen_vars, admitted, npaths, stop_vars, fn_vars>>

(***************************************************************************)
(* The session with one feeder, the main thread.  The session is not used  *)
(* any more once close() has returned.                                     *)
(***************************************************************************)
Next ==
    \/ start
    \/ run_get
    \/ run_add
    \/ \E path \in Paths : add_path_call("main", path)
    \/ add_path_check("main")
    \/ add_path_put("main")
    \/ add_path_load("main")
    \/ add_path_store("main")
    \/ \E hs, hu, ho \in BOOLEAN, lead \in Leads :
          add_paths_call(hs, hu, ho, lead)
    \/ add_paths_return
    \/ add_paths_blank
    \/ \E path \in Paths : add_paths_attempt(path)
    \/ \E path \in Paths : add_paths_halted(path)
    \/ add_paths_handle
    \/ stop
    \/ close_call
    \/ close_finish

Spec == Init /\ [][Next]_vars

(***************************************************************************)
(* The session with two feeders: the main thread and a second thread both  *)
(* call add_path on the same LimitTar object.  The code takes no lock, so  *)
(* the steps of the two calls interleave freely.                           *)
(***************************************************************************)
ConcConfigs == Configs \cup {<<3 * RECORD, RECORD>>}

InitConc ==
    /\ \E c \in ConcConfigs : size_limit = c[1] /\ bufsize = c[2]
    /\ data_size = 0
    /\ path_queue = <<>>
    /\ started = FALSE
    /\ wpc = "new"
    /\ wpath = Blank
    /\ tar_closed = FALSE
    /\ written = <<>>
    /\ pc = [t \in Threads |-> "idle"]
    /\ ap = [t \in Threads |-> ap_idle]
    /\ gen = gen_idle
    /\ log = <<>>
    /\ admitted = <<>>
    /\ npaths = 0
    /\ stops = 0
    /\ stop_mark = 0
    /\ fn_in = fn_idle_in
    /\ fn_out = fn_idle_out

NextConc ==
    \/ start
    \/ run_get
    \/ run_add
    \/ \E t \in Threads, path \in Paths : add_path_call(t, path)
    \/ \E t \in Threads : add_path_check(t)
    \/ \E t \in Threads : add_path_put(t)
    \/ \E t \in Threads : add_path_load(t)
    \/ \E t \in Threads : add_path_store(t)
    \/ stop
    \/ close_call
    \/ close_finish

SpecConc == InitConc /\ [][NextConc]_vars

(***************************************************************************)
(* The size functions on their own: determine_tar_file_size is called on   *)
(* paths of sampled lengths and on files of every length up to MaxFileLen. *)
(***************************************************************************)
PathSizes == {1, 10, NAME_FIELD - 1, NAME_FIELD, NAME_FIELD + 1,
              2 * NAME_FIELD, RECORD, RECORD + 1}
FileLens == 0 .. MaxFileLen

InitFn ==
    /\ size_limit = None
    /\ bufsize = DEFAULT_BUFSIZE
    /\ data_size = 0
    /\ path_queue = <<>>
    /\ started = FALSE
    /\ wpc = "new"
    /\ wpath = Blank
    /\ tar_closed = FALSE
    /\ written = <<>>
    /\ pc = [t \in Threads |-> "idle"]
    /\ ap = [t \in Threads |-> ap_idle]
    /\ gen = gen_idle
    /\ log = <<>>
    /\ admitted = <<>>
    /\ npaths = 0
    /\ stops = 0
    /\ stop_mark = 0
    /\ fn_in \in [path_size : PathSizes, kind : StatKinds,
                   file_size : FileLens]
    /\ fn_out = fn_idle_out

\* the call determine_tar_file_size(path) on the chosen path
call_determine_tar_file_size ==
    /\ fn_out = fn_idle_out
    /\ fn_out' = determine_tar_file_size(fn_in.path_size, fn_in.kind,
                                         fn_in.file_size)
    /\ UNCHANGED <<config_vars, data_size, path_queue, worker_vars,
                   tar_closed, pc, ap, gen_vars, admitted, npaths,
                   stop_vars, fn_in>>

NextFn == call_determine_tar_file_size

SpecFn == InitFn /\ [][NextFn]_vars

(***************************************************************************)
(* determine_tar_archive_size on its own, called on every sum of file      *)
(* sizes up to MaxTotal and around a full default block, with sampled      *)
(* block sizes.                                                            *)
(***************************************************************************)
Totals == (0 .. MaxTotal)
          \cup ((DEFAULT_BUFSIZE - 2 * RECORD - 1)
                 .. (DEFAULT_BUFSIZE - 2 * RECORD + 1))
ArchiveBufSizes == {1, RECORD, 1000, 2 * RECORD, 3 * RECORD, DEFAULT_BUFSIZE}

InitArchive ==
    /\ size_limit = None
    /\ bufsize = DEFAULT_BUFSIZE
    /\ data_size = 0
    /\ path_queue = <<>>
    /\ started = FALSE
    /\ wpc = "new"
    /\ wpath = Blank
    /\ tar_closed = FALSE
    /\ written = <<>>
    /\ pc = [t \in Threads |-> "idle"]
    /\ ap = [t \in Threads |-> ap_idle]
    /\ gen = gen_idle
    /\ log = <<>>
    /\ admitted = <<>>
    /\ npaths = 0
    /\ stops = 0
    /\ stop_mark = 0
    /\ fn_in \in [tar_data_size : Totals, bufsize : ArchiveBufSizes]
    /\ fn_out = fn_idle_out

\* the call determine_tar_archive_size(tar_data_size, bufsize)
call_determine_tar_archive_size ==
    /\ fn_out = fn_idle_out
    /\ fn_out' = [raised |-> "none",
                  value |-> determine_tar_archive_size(fn_in.tar_data_size,
                                                       fn_in.bufsize)]
    /\ UNCHANGED <<config_vars, data_size, path_queue, worker_vars,
                   tar_closed, pc, ap, gen_vars, admitted, npaths,
                   stop_vars, fn_in>>

NextArchive == call_determine_tar_archive_size

SpecArchive == InitArchive /\ [][NextArchive]_vars

(***************************************************************************)
(* Properties.                                                             *)
(***************************************************************************)
\* the thread is between the put of a path and the commit of its size
committing(t) == pc[t] \in {"ap_load", "ap_store"}

\* the sum of the predicted sizes of the admitted paths
admitted_size == SumSeq(predicted_of, admitted)

\* the bytes of the members the worker has written
written_size == SumSeq(tar_add_size, written)

\* C1: with a positive size_limit and one feeder, as soon as a path has
\* been admitted the predicted archive size `size` is at most size_limit.
C1_SizeWithinLimit ==
    (size_limit > 0 /\ admitted # <<>>) => size <= size_limit

\* C1 witness: a path admitted, the next one rejected, the archive exactly
\* as large as the limit.
C1_Witness ==
    /\ size_limit > 0
    /\ Len(admitted) = 1
    /\ size = size_limit
    /\ pc["main"] = "idle"
    /\ ap["main"].result = "SizeLimitReached"

\* C2: the real size of the finished container is at most the size
\* predicted from _data_size.
C2_RealSizeWithinPrediction ==
    tar_closed =>
        tar_container_size(written_size, bufsize)
            <= determine_tar_archive_size(data_size, bufsize)

\* C3: the step of add_path that raises SizeLimitReached leaves _data_size
\* and the queue as they were, and the path is not enqueued.
C3_RejectLeavesState ==
    [][\A t \in Threads :
         (pc[t] = "ap_check" /\ ap'[t].result = "SizeLimitReached")
            => /\ data_size' = data_size
               /\ path_queue' = path_queue
               /\ admitted' = admitted]_vars

\* C3 witness: a direct add_path call was rejected for the size limit
\* after another path had been admitted and counted.
C3_Witness ==
    /\ pc["main"] = "idle"
    /\ ap["main"].ret = "direct"
    /\ ap["main"].result = "SizeLimitReached"
    /\ ap["main"].path = "d"
    /\ admitted = <<"a">>
    /\ data_size = predicted_of("a")

\* C4: with one feeder, outside the commit of an admission _data_size is
\* the sum of the predicted sizes of the admitted paths and `size` the
\* archive size of that sum; _data_size never decreases and only the
\* commit of a successful admission changes it.
C4_DataSizeIsSum ==
    /\ [](~committing("main") =>
            /\ data_size = admitted_size
            /\ size = determine_tar_archive_size(admitted_size, bufsize))
    /\ [][/\ data_size' >= data_size
          /\ data_size' # data_size =>
                /\ pc["main"] = "ap_store"
                /\ ap'["main"].result = "ok"
                /\ data_size' = data_size + predicted_of(ap["main"].path)]_vars

\* C4 witness: two different paths admitted by two calls.
C4_Witness ==
    /\ pc["main"] = "idle"
    /\ admitted = <<"a", "d">>
    /\ ap["main"].result = "ok"
    /\ data_size = predicted_of("a") + predicted_of("d")
    /\ size = 3 * bufsize

\* C5: with size_limit = 0 the size check applies and every add_path call
\* is rejected, so no path is ever enqueued.
C5_ZeroLimitRejectsAll ==
    size_limit = 0 => (admitted = <<>> /\ data_size = 0)

\* item k of the running add_paths call has been put on the queue
log_put(k) ==
    \/ log[k].result = "ok"
    \/ /\ log[k].result = "pending"
       /\ \/ committing("main")
          \/ pc["main"] = "gen_handle" /\ ap["main"].result = "ok"

\* add_paths is done with item k of the running call
log_done(k) == log[k].result # "pending"

\* the paths of the items of the running add_paths call that were put on
\* the queue
log_admitted ==
    LET RECURSIVE sel(_)
        sel(k) == IF k > Len(log) THEN <<>>
                  ELSE IF log_put(k) THEN <<log[k].path>> \o sel(k + 1)
                  ELSE sel(k + 1)
    IN  sel(1)

is_suffix(s, whole) ==
    /\ Len(s) <= Len(whole)
    /\ s = SubSeq(whole, Len(whole) - Len(s) + 1, Len(whole))

halting(k) ==
    \/ log[k].underrun
    \/ log[k].result = "SizeLimitReached" /\ gen.hs
    \/ log[k].result = "OSError" /\ gen.ho

\* C7: the item that makes add_paths halt and every later non-blank item
\* are yielded, and from the halting point on no admission is attempted:
\* an item on which the underrun test fires and every item after a halting
\* item is yielded without an admission attempt.
C7_HaltYieldsRest ==
    \A k \in 1 .. Len(log) :
        /\ (halting(k) /\ log_done(k)) => log[k].yielded
        /\ log[k].underrun => ~log_put(k)
        /\ (\E j \in 1 .. (k - 1) : halting(j))
              => (log[k].yielded /\ log[k].result = "none")

\* C8: when close() has finalized the container every path enqueued
\* before the first stop() has been written, in order, and nothing is
\* written once the container is finalized.
C8_StopThenClose ==
    /\ [](tar_closed =>
            /\ stops >= 1
            /\ wpc = "done"
            /\ Len(written) >= stop_mark
            /\ SubSeq(written, 1, stop_mark) = SubSeq(admitted, 1, stop_mark))
    /\ [][tar_closed => written' = written]_vars

\* C8 witness: a path enqueued before stop(), one after, close() done.
C8_Witness ==
    /\ tar_closed
    /\ stop_mark = 1
    /\ Len(admitted) = 2
    /\ written = <<admitted[1]>>

\* C9: a close() on a started session returns: while the main thread
\* waits in close() the worker can take a step or the join can return.
C9_CloseReturns ==
    pc["main"] = "join" => ENABLED (run_get \/ run_add \/ close_finish)

\* the payload part of the result of determine_tar_file_size
payload_part ==
    fn_out.value - RECORD - long_name_size(fn_in.path_size)

\* C10: the payload part of determine_tar_file_size is the file length
\* rounded up to a multiple of 512 for a regular file, 0 for a directory.
C10_PayloadRoundsUp ==
    fn_out.raised = "none" =>
        payload_part = IF fn_in.kind = "file"
                       THEN RECORD * math_ceil_div(fn_in.file_size, RECORD)
                       ELSE 0

\* the long-name part of the result of determine_tar_file_size
long_name_part ==
    fn_out.value - RECORD - payload_size(fn_in.kind, fn_in.file_size)

\* the number of records that hold n bytes: the least r with r * 512 >= n
records_for(n) == CHOOSE r \in 0 .. n : r * RECORD >= n /\ (r - 1) * RECORD < n

\* C11: determine_tar_file_size adds the long-name extension exactly when
\* the encoded path is longer than 100 bytes, and the extension costs 512
\* plus the path in records of 512; an empty file costs 512 with a 10-byte
\* name and 1536 with a 200-byte name.
C11_LongNameExtension ==
    fn_out.raised = "none" =>
        /\ long_name_part = IF fn_in.path_size > 100
                            THEN 512 + 512 * records_for(fn_in.path_size)
                            ELSE 0
        /\ (fn_in.kind = "file" /\ fn_in.file_size = 0 /\ fn_in.path_size = 10)
              => fn_out.value = 512
        /\ (fn_in.kind = "file" /\ fn_in.file_size = 0 /\ fn_in.path_size = 200)
              => fn_out.value = 1536

\* C11 witness: the size of an empty file with a name of exactly 100 bytes
\* has been determined, without extension.
C11_Witness ==
    /\ fn_out.raised = "none"
    /\ fn_in.path_size = NAME_FIELD
    /\ fn_in.kind = "file"
    /\ fn_in.file_size = 0
    /\ fn_out.value = RECORD

\* C12: determine_tar_archive_size(total, bufsize) is the least multiple
\* of bufsize that holds total + 1024 bytes, does not decrease when total
\* grows, and is bufsize for total = 0 and bufsize >= 1024.
C12_ArchiveSize ==
    fn_out.raised = "none" =>
        LET total == fn_in.tar_data_size
            b == fn_in.bufsize
            v == fn_out.value
        IN  /\ v % b = 0
            /\ v >= total + 1024
            /\ v - b < total + 1024
            /\ total > 0 => determine_tar_archive_size(total - 1, b) <= v
            /\ (total = 0 /\ b >= 1024) => v = b

\* C12 witness: the size of the archive whose files fill the default
\* block together with the two end records, and one byte more.
C12_Witness ==
    /\ fn_out.raised = "none"
    /\ fn_in.bufsize = DEFAULT_BUFSIZE
    /\ fn_in.tar_data_size = DEFAULT_BUFSIZE - 2 * RECORD + 1
    /\ fn_out.value = 2 * DEFAULT_BUFSIZE

\* C13: with halt_on_underrun set, an item on which the underrun test
\* fires (past the warm-up, queue empty, not halted) is not admitted, gets
\* no admission attempt, and is yielded with the Underrun as its reason.
C13_UnderrunItemNotAdmitted ==
    \A k \in 1 .. Len(log) :
        (gen.hu /\ log[k].underrun) =>
            /\ ~log_put(k)
            /\ log[k].result \in {"pending", "none"}
            /\ log_done(k) => (log[k].yielded /\ log[k].reason = "Underrun")

\* no add_path call is between its check and the end of its commit
quiescent == \A t \in Threads : pc[t] \notin {"ap_put", "ap_load", "ap_store"}

\* C14: with add_path called from two threads the check and the commit of
\* an admission are atomic: whenever no call is inside its commit,
\* _data_size is the sum of the predicted sizes of the admitted paths and
\* the predicted archive size is within a positive size_limit.
C14_ConcurrentAdmission ==
    quiescent =>
        /\ data_size = admitted_size
        /\ (truthy(size_limit) /\ admitted # <<>>) => size <= size_limit

\* C15: size is a consistent snapshot at any time: every path that is on
\* the queue or was taken by the worker is already counted in _data_size,
\* so size is never below the archive size predicted for the paths
\* enqueued so far.
C15_SizeCountsEnqueued ==
    /\ data_size >= admitted_size
    /\ size >= determine_tar_archive_size(admitted_size, bufsize)

\* the paths the worker has taken from the queue so far, in the order it
\* took them: those written and the one it is about to write
taken == IF wpc = "add" THEN Append(written, wpath) ELSE written

\* the paths waiting on the queue, without the end marks of stop()
queued_paths == SelectSeq(path_queue, LAMBDA x : x # NoneVal)

\* C16: with one feeder and one worker the worker writes the paths in
\* exactly the order of their admission, and each admitted path at most
\* once: the paths taken by the worker followed by those still queued are
\* the admitted paths, so what is written is always a prefix of them.
C16_WorkerFifo ==
    /\ taken \o queued_paths = admitted
    /\ Len(written) <= Len(admitted)
    /\ written = SubSeq(admitted, 1, Len(written))

\* C16 witness: a then d were admitted and the worker has written both.
C16_Witness ==
    /\ admitted = <<"a", "d">>
    /\ written = <<"a", "d">>

\* the path cannot be examined: os.path.getsize raises OSError
missing(p) == FS[p].kind = "missing"

\* C17, in every state: a path that cannot be examined is never admitted;
\* in add_paths it is yielded with the OSError as its reason, and after it
\* the feeder is halted exactly when halt_on_os_error is set (or the
\* underrun test had fired on that very item), otherwise the next item
\* is attempted.
C17_OSErrorItems ==
    /\ \A k \in 1 .. Len(admitted) : ~missing(admitted[k])
    /\ \A k \in 1 .. Len(log) :
          /\ (missing(log[k].path) /\ ~log[k].halted_before /\ log_done(k))
                => log[k].result = "OSError"
          /\ log[k].result = "OSError" =>
                /\ log[k].yielded
                /\ log[k].reason = "OSError"
                /\ LET halts == gen.ho \/ log[k].underrun
                   IN  IF k < Len(log)
                       THEN log[k + 1].halted_before <=> halts
                       ELSE gen.halt <=> halts

\* C17, in every step: the add_path call on a path that cannot be examined
\* ends with the OSError and leaves _data_size and the queue as they were.
C17_OSErrorStep ==
    \A t \in Threads :
        (pc[t] = "ap_check" /\ pc'[t] # "ap_check" /\ missing(ap[t].path))
            => /\ ap'[t].result = "OSError"
               /\ data_size' = data_size
               /\ path_queue' = path_queue
               /\ admitted' = admitted

attempt_step == pc["main"] = "gen_iter" /\ pc'["main"] = "ap_check"

\* add_paths yields an item without attempt in this step
halted_step ==
    pc["main"] = "gen_iter" /\ pc'["main"] = "gen_iter"
        /\ Len(log') = Len(log) + 1

\* the underrun test fired on the item add_paths took in this step;
\* gen.i is the 0-based position of that item in the input
fired_in_step == log'[Len(log')].underrun

\* C18: with halt_on_underrun set the underrun test is skipped for
\* exactly the first 10 input items and applied to the 11th and every later
\* item while not halted: on an empty queue the 11th item is the first to
\* trigger the Underrun halt.
C18_SkippedForFirst10 ==
    [][/\ attempt_step =>
            (fired_in_step <=>
                (gen.i + 1 >= 11 /\ gen.hu /\ path_queue = <<>>))
       /\ halted_step => ~fired_in_step]_vars

\* C18 as the code has it: the test is skipped for exactly the first 11
\* input items, blank ones included, and applied to the 12th and every
\* later item while not halted: on an empty queue the 12th item is the
\* first to trigger the Underrun halt.
C18_SkippedForFirst11 ==
    [][/\ attempt_step =>
            /\ fired_in_step <=>
                  (gen.i + 1 >= 12 /\ gen.hu /\ path_queue = <<>>)
            /\ gen'.halt <=> fired_in_step
       /\ halted_step => ~fired_in_step]_vars

\* C18 witness: after 10 blank items the 11th item, the missing m, met an
\* empty queue without the test firing, and the test fired on the 12th.
C18_Witness ==
    /\ pc["main"] = "ap_check"
    /\ gen.hu
    /\ gen.lead = UNDERRUN_AFTER
    /\ gen.i = UNDERRUN_AFTER + 2
    /\ admitted = <<>>
    /\ Len(log) = 2
    /\ log[1].path = "m" /\ log[1].result = "OSError" /\ ~log[1].underrun
    /\ log[2].underrun
    /\ gen.halt

\* add_paths passes over a blank item in this step: it moves on in the
\* input without taking a path
blank_step ==
    /\ pc["main"] = "gen_iter" /\ pc'["main"] = "gen_iter"
    /\ gen'.i = gen.i + 1
    /\ npaths' = npaths

\* C19: add_paths skips a blank item without yielding it and without an
\* admission attempt, before and after halting: the step changes neither
\* what was yielded, nor _data_size, nor the queue, nor the halt flag.
C19_BlankSkipped ==
    [][blank_step =>
          /\ log' = log
          /\ ap' = ap
          /\ data_size' = data_size
          /\ path_queue' = path_queue
          /\ admitted' = admitted
          /\ gen'.halt = gen.halt
          /\ gen'.exception = gen.exception]_vars

\* C19 witness: the call halted on d for the size limit, then skipped a
\* blank item, and d is all it has yielded.
C19_Witness ==
    /\ pc["main"] = "gen_iter"
    /\ gen.halt
    /\ gen.skipped_halted
    /\ Len(log) = 1
    /\ log[1].path = "d" /\ log[1].result = "SizeLimitReached"
    /\ log[1].yielded
    /\ path_queue = <<>>
    /\ data_size = 0

\* C20: once close() has returned every path add_path accepted has been
\* written, whether it was accepted before or after stop(): no path is
\* counted in size and missing from the finished archive.
C20_AcceptedAreWritten ==
    tar_closed =>
        /\ written = admitted
        /\ data_size = SumSeq(predicted_of, written)

====
